---- MODULE Spec2Model ----
(***************************************************************************)
(* Model of the `spfx project externalize` command                         *)
(* (src/src/m365/spfx/commands/project/project-externalize.ts).            *)
(*                                                                         *)
(* The command instance is a singleton (module.exports = new ...), so its  *)
(* fields allFindings / allEditSuggestions live across calls of            *)
(* commandAction.  One call is modelled as the sequence of its             *)
(* synchronous statements up to the await on Promise.all, the settling of  *)
(* the rules' promises in any order, and the continuation after the await. *)
(***************************************************************************)
EXTENDS Integers, Sequences, FiniteSets, TLC

VARIABLES
  numRules,            \* length of the imported rules array
  allFindings,         \* this.allFindings
  allEditSuggestions,  \* this.allEditSuggestions
  projectRootPath,     \* this.projectRootPath
  projectVersion,      \* this.projectVersion
  pc,                  \* position of the current call of commandAction
  output,              \* args.options.output of the current call
  projectLoaded,       \* getProject has been called in the current call
  visits,              \* visits[i]: number of calls of rules[i].visit in the current call
  ruleState,           \* ruleState[i]: the promise returned by rules[i].visit
  all,                 \* the promise returned by Promise.all
  settleOrder,         \* rule indices in the order their promises settled
  logged,              \* values passed to logger.log in the current call
  error,               \* <<>> or <<e>>: the CommandError the current call threw
  failedAt,            \* the statement that threw, "none" if none
  startFindings,       \* allFindings when the current call began
  startEdits,          \* allEditSuggestions when the current call began
  prevJson,            \* <<>> or <<r>>: results and report of the previous call, if it
                       \* succeeded with output 'json'
  runs                 \* number of calls of commandAction so far

vars == <<numRules, allFindings, allEditSuggestions, projectRootPath, projectVersion,
          pc, output, projectLoaded, visits, ruleState, all, settleOrder, logged,
          error, failedAt, startFindings, startEdits, prevJson, runs>>

----------------------------------------------------------------------------
(* Bounds *)

MaxRules == 2
MaxRuns == 2
MaxEdits == 4

----------------------------------------------------------------------------
(* Values *)

Undefined == "<undefined>"
Null == "<null>"
UndefinedDeps == <<"<undefined>">>
EOL == "<EOL>"

ERROR_NO_PROJECT_ROOT_FOLDER == 1
ERROR_NO_VERSION == 3
ERROR_UNSUPPORTED_VERSION == 2

supportedVersions ==
  << "1.0.0", "1.0.1", "1.0.2", "1.1.0", "1.1.1", "1.1.3", "1.2.0", "1.3.0",
     "1.3.1", "1.3.2", "1.3.4", "1.4.0", "1.4.1", "1.5.0", "1.5.1", "1.6.0",
     "1.7.0", "1.7.1", "1.8.0", "1.8.1", "1.8.2", "1.9.1" >>

ExternalizeEntry(k, p, g, d) ==
  [key |-> k, path |-> p, globalName |-> g, globalDependencies |-> d]

FileEdit(p, a, t) == [path |-> p, action |-> a, targetValue |-> t]

RuleResult(e, s) == [entries |-> e, suggestions |-> s]

(* Inputs of a call: what the collaborators and the rules return. *)
Roots == {Null, "/work/proj"}
Versions == {Undefined, "", "1.9.1", "9.9.9"}
Outputs == {"json", "md", "text", "csv", Undefined}

LodashCdn == ExternalizeEntry("lodash", "https://cdn/lodash.js", Undefined, UndefinedDeps)
LodashOther == ExternalizeEntry("lodash", "https://other/lodash.js", "_", <<"jquery">>)
JqueryCdn == ExternalizeEntry("jquery", "https://cdn/jquery.js", "$", UndefinedDeps)
JqueryOther == ExternalizeEntry("jquery", "https://other/jquery.js", Undefined, UndefinedDeps)
ReactCdn == ExternalizeEntry("react", "https://cdn/react.js", "", <<>>)

AddLodash == FileEdit("webpart.ts", "add", "import * as _ from 'lodash';")
AddJquery == FileEdit("webpart.ts", "add", "import * as $ from 'jquery';")
RemoveRequire == FileEdit("webpart.ts", "remove", "require('jquery');")
AddOther == FileEdit("other.ts", "add", "import * as _ from 'lodash';")

RuleResults ==
  { RuleResult(<<>>, <<>>),
    RuleResult(<<LodashCdn>>, <<AddLodash>>),
    RuleResult(<<LodashOther, JqueryCdn, ReactCdn, JqueryOther>>,
               <<RemoveRequire, AddOther, AddJquery>>) }

RuleError == "rule failed"
ReduceTypeError == "TypeError: Reduce of empty array with no initial value"

NoResult == RuleResult(<<>>, <<>>)

----------------------------------------------------------------------------
(* Array helpers, as the JavaScript built-ins compute them *)

\* variant: indexOf that reports every value as found at index 0
indexOfAlwaysFirst(arr, x) == 0
\* Array.prototype.indexOf: 0-based index of the first occurrence, -1 if none
indexOf(arr, x) ==
  IF \E i \in 1..Len(arr) : arr[i] = x
  THEN (CHOOSE i \in 1..Len(arr) : arr[i] = x /\ \A j \in 1..(i - 1) : arr[j] # x) - 1
  ELSE -1

\* !value for a string | undefined
Falsy(v) == v = Undefined \/ v = ""

\* arr.findIndex(y => y.key === k)
findIndexByKey(arr, k) ==
  IF \E i \in 1..Len(arr) : arr[i].key = k
  THEN (CHOOSE i \in 1..Len(arr) : arr[i].key = k /\ \A j \in 1..(i - 1) : arr[j].key # k) - 1
  ELSE -1

\* arr.findIndex(y => y.path === p)
findIndexByPath(arr, p) ==
  IF \E i \in 1..Len(arr) : arr[i].path = p
  THEN (CHOOSE i \in 1..Len(arr) : arr[i].path = p /\ \A j \in 1..(i - 1) : arr[j].path # p) - 1
  ELSE -1

\* arrs.reduce((x, y) => [...x, ...y]) on a non-empty array of arrays
RECURSIVE reduceConcat(_)
reduceConcat(arrs) ==
  IF Len(arrs) = 1 THEN arrs[1]
  ELSE reduceConcat(SubSeq(arrs, 1, Len(arrs) - 1)) \o arrs[Len(arrs)]

\* reduce without an initial value throws a TypeError on an empty array
reduceThrows(arrs) == Len(arrs) = 0

\* this.allFindings.filter((x, i) => this.allFindings.findIndex(y => y.key === x.key) === i)
RECURSIVE keepFirstByKey(_, _)
keepFirstByKey(arr, i) ==
  IF i > Len(arr) THEN <<>>
  ELSE (IF findIndexByKey(arr, arr[i].key) = i - 1 THEN <<arr[i]>> ELSE <<>>)
       \o keepFirstByKey(arr, i + 1)

removeDuplicates(arr) == keepFirstByKey(arr, 1)

----------------------------------------------------------------------------
(* Promise.all over the rules' promises *)

PendingAll(n) == [status |-> "pending", values |-> [i \in 1..n |-> NoResult],
                  remaining |-> n, reason |-> ""]

\* Promise.all(promises): an empty array fulfils at once with []
PromiseAll(n) ==
  IF n = 0 THEN [PendingAll(0) EXCEPT !.status = "fulfilled"] ELSE PendingAll(n)

\* variant: values collected in the order of completion
PromiseAllOnFulfilByCompletion(p, i, v) ==
  IF p.status # "pending" THEN p
  ELSE LET k == Len(p.values) - p.remaining + 1
           vals == [p.values EXCEPT ![k] = v]
       IN [p EXCEPT !.values = vals, !.remaining = p.remaining - 1,
                    !.status = IF p.remaining = 1 THEN "fulfilled" ELSE "pending"]
\* variant: the result fulfils with the first promise that fulfils
PromiseAllOnFulfilFirst(p, i, v) ==
  IF p.status # "pending" THEN p
  ELSE [p EXCEPT !.values = [p.values EXCEPT ![i] = v],
                 !.remaining = p.remaining - 1,
                 !.status = "fulfilled"]
\* reaction of Promise.all to promise i fulfilling with v: the value is stored
\* at index i, and the result fulfils when no promise remains
PromiseAllOnFulfil(p, i, v) ==
  IF p.status # "pending" THEN p
  ELSE [p EXCEPT !.values = [p.values EXCEPT ![i] = v],
                 !.remaining = p.remaining - 1,
                 !.status = IF p.remaining = 1 THEN "fulfilled" ELSE "pending"]

\* variant: a rejection counted as a fulfilment with an empty result
PromiseAllOnRejectIgnored(p, i, reason) == PromiseAllOnFulfil(p, i, NoResult)
\* reaction of Promise.all to promise i rejecting: the first rejection rejects the result
PromiseAllOnReject(p, i, reason) ==
  IF p.status # "pending" THEN p
  ELSE [p EXCEPT !.status = "rejected", !.reason = reason]

----------------------------------------------------------------------------
(* new CommandError(message, code): code is a set, empty when no code is given *)

\* variant: the code argument is not kept
CommandErrorDroppingCode(message, code) == [message |-> message, code |-> {}]
CommandErrorWithCode(message, code) == [message |-> message, code |-> {code}]
CommandErrorNoCode(message) == [message |-> message, code |-> {}]

----------------------------------------------------------------------------
(* Report serialization.  A JavaScript object is a sequence of key/value     *)
(* pairs in insertion order; a string is the sequence of its pieces.         *)

\* result[k] = v: an existing key keeps its position and gets the new value
setProperty(obj, k, v) ==
  IF \E i \in 1..Len(obj) : obj[i].key = k
  THEN [i \in 1..Len(obj) |-> IF obj[i].key = k THEN [key |-> k, value |-> v] ELSE obj[i]]
  ELSE Append(obj, [key |-> k, value |-> v])

\* a mapping value that is the bare path string
PathValue(f) ==
  [type |-> "string", path |-> f.path, globalName |-> Undefined,
   globalDependencies |-> UndefinedDeps]

\* a mapping value that is an External object
ExternalValue(f) ==
  [type |-> "External", path |-> f.path, globalName |-> f.globalName,
   globalDependencies |-> f.globalDependencies]

\* variant: the globalName test left out
forEachFindingAlwaysPath(result, f) == setProperty(result, f.key, PathValue(f))
\* the body of findingsToReport.forEach
forEachFinding(result, f) ==
  IF Falsy(f.globalName)
  THEN setProperty(result, f.key, PathValue(f))
  ELSE setProperty(result, f.key, ExternalValue(f))

RECURSIVE forEach(_, _)
forEach(result, findings) ==
  IF findings = <<>> THEN result
  ELSE forEach(forEachFinding(result, Head(findings)), Tail(findings))

serializeJsonReport(findingsToReport) == [externals |-> forEach(<<>>, findingsToReport)]

\* pieces joined with "," between them
RECURSIVE commaJoin(_)
commaJoin(parts) ==
  IF Len(parts) = 0 THEN <<>>
  ELSE IF Len(parts) = 1 THEN parts[1]
  ELSE parts[1] \o <<",">> \o commaJoin(Tail(parts))

\* JSON.stringify of an array of strings
stringifyStrings(arr) ==
  <<"[">> \o commaJoin([i \in 1..Len(arr) |-> <<arr[i]>>]) \o <<"]">>

\* JSON.stringify of a mapping value: a property whose value is undefined is left out
stringifyValue(v) ==
  IF v.type = "string" THEN <<v.path>>
  ELSE <<"{", "path", ":", v.path, ",", "globalName", ":", v.globalName>>
       \o (IF v.globalDependencies = UndefinedDeps THEN <<>>
           ELSE <<",", "globalDependencies", ":">> \o stringifyStrings(v.globalDependencies))
       \o <<"}">>

\* JSON.stringify of an externals mapping
stringifyExternals(m) ==
  <<"{">> \o commaJoin([i \in 1..Len(m) |-> <<m[i].key, ":">> \o stringifyValue(m[i].value)])
  \o <<"}">>

\* JSON.stringify of { externals: ... }
stringifyConfiguration(c) ==
  <<"{", "externals", ":">> \o stringifyExternals(c.externals) \o <<"}">>

\* JSON.stringify of a FileEdit and of an array of them
stringifyEdit(e) ==
  <<"{", "path", ":", e.path, ",", "action", ":", e.action, ",",
    "targetValue", ":", e.targetValue, "}">>

stringifyEdits(edits) ==
  <<"[">> \o commaJoin([i \in 1..Len(edits) |-> stringifyEdit(edits[i])]) \o <<"]">>

\* JSON.stringify of { externalConfiguration: ..., edits: ... }
stringifyReport(r) ==
  <<"{", "externalConfiguration", ":">> \o stringifyConfiguration(r.externalConfiguration)
  \o <<",", "edits", ":">> \o stringifyEdits(r.edits) \o <<"}">>

\* path.basename
basename(p) == IF p = "/work/proj" THEN "proj" ELSE p

\* String.prototype.trim on a sequence of pieces: leading and trailing line ends go
RECURSIVE trim(_)
trim(s) ==
  IF s = <<>> THEN s
  ELSE IF Head(s) = EOL THEN trim(Tail(s))
  ELSE IF s[Len(s)] = EOL THEN trim(SubSeq(s, 1, Len(s) - 1))
  ELSE s

\* variant: the filter on action left out
getGroupedFileEditsAllActions(editsToReport, action) ==
  LET RECURSIVE firsts(_)
      firsts(i) ==
        IF i > Len(editsToReport) THEN <<>>
        ELSE (IF findIndexByPath(editsToReport, editsToReport[i].path) = i - 1
              THEN <<editsToReport[i]>> ELSE <<>>) \o firsts(i + 1)
      heads == firsts(1)
  IN [g \in 1..Len(heads) |-> SelectSeq(editsToReport, LAMBDA y : y.path = heads[g].path)]
getGroupedFileEdits(editsToReport, action) ==
  LET editsMatchingAction == SelectSeq(editsToReport, LAMBDA x : x.action = action)
      RECURSIVE firsts(_)
      firsts(i) ==
        IF i > Len(editsMatchingAction) THEN <<>>
        ELSE (IF findIndexByPath(editsMatchingAction, editsMatchingAction[i].path) = i - 1
              THEN <<editsMatchingAction[i]>> ELSE <<>>) \o firsts(i + 1)
      heads == firsts(1)
  IN [g \in 1..Len(heads) |->
        SelectSeq(editsMatchingAction, LAMBDA y : y.path = heads[g].path)]

getReportForFileEdit(suggestions) ==
  LET section(x) ==
        <<"#### [", x[1].path, "](", x[1].path, ")", EOL, x[1].action, EOL,
          "<fence>JavaScript", EOL>>
        \o reduceConcat([i \in 1..Len(x) |-> <<x[i].targetValue, EOL>>])
        \o <<"<fence>", EOL>>
      initialReport == [g \in 1..Len(suggestions) |-> section(suggestions[g])]
  IN IF Len(initialReport) > 0 THEN reduceConcat(initialReport) ELSE <<>>

serializeMdReport(findingsToReport, editsToReport, root) ==
  <<"# Externalizing dependencies of project ", basename(root), EOL, EOL,
    "Date: ", "<toLocaleDateString>", EOL, EOL,
    "## Findings", EOL, EOL,
    "### Modify files", EOL, EOL,
    "#### [config.json](config/config.json)", EOL, EOL,
    "Replace the externals property (or add if not defined) with", EOL, EOL,
    "<fence>json", EOL>>
  \o stringifyConfiguration(serializeJsonReport(findingsToReport))
  \o <<EOL, "<fence>", EOL>>
  \o getReportForFileEdit(getGroupedFileEdits(editsToReport, "add"))
  \o getReportForFileEdit(getGroupedFileEdits(editsToReport, "remove"))

\* variant: the text report builds its own mapping of key to path
serializeTextReportPathsOnly(findingsToReport, editsToReport) ==
  trim(<<"In the config/config.json file update the externals property to:", EOL, EOL>>
       \o stringifyReport([externalConfiguration |->
                             [externals |-> [i \in 1..Len(findingsToReport) |->
                                 [key |-> findingsToReport[i].key,
                                  value |-> PathValue(findingsToReport[i])]]],
                           edits |-> editsToReport]))
serializeTextReport(findingsToReport, editsToReport) ==
  trim(<<"In the config/config.json file update the externals property to:", EOL, EOL>>
       \o stringifyReport([externalConfiguration |-> serializeJsonReport(findingsToReport),
                           edits |-> editsToReport]))

\* the value writeReport passes to logger.log: an object or a string
ObjectReport(o) == [type |-> "object", object |-> o, string |-> <<>>]
StringReport(s) ==
  [type |-> "string",
   object |-> [externalConfiguration |-> [externals |-> <<>>], edits |-> <<>>],
   string |-> s]

\* variant: the structured report is the default of the switch
writeReportDefaultJson(findingsToReport, editsToReport, out, root) ==
  IF out = "md"
  THEN StringReport(serializeMdReport(findingsToReport, editsToReport, root))
  ELSE IF out = "text"
  THEN StringReport(serializeTextReport(findingsToReport, editsToReport))
  ELSE ObjectReport([externalConfiguration |-> serializeJsonReport(findingsToReport),
                     edits |-> editsToReport])
\* lines 114-128: the value the switch on options.output assigns to report
writeReport(findingsToReport, editsToReport, out, root) ==
  IF out = "json"
  THEN ObjectReport([externalConfiguration |-> serializeJsonReport(findingsToReport),
                     edits |-> editsToReport])
  ELSE IF out = "md"
  THEN StringReport(serializeMdReport(findingsToReport, editsToReport, root))
  ELSE StringReport(serializeTextReport(findingsToReport, editsToReport))

----------------------------------------------------------------------------
(* The state machine *)

Rules == 1..numRules

NotVisited == [status |-> "notVisited", value |-> NoResult]
Pending == [status |-> "pending", value |-> NoResult]

Init ==
  /\ numRules \in 0..MaxRules
  /\ allFindings = <<>>
  /\ allEditSuggestions = <<>>
  /\ projectRootPath = Null
  /\ projectVersion = Undefined
  /\ pc = "idle"
  /\ output = Undefined
  /\ projectLoaded = FALSE
  /\ visits = [i \in 1..numRules |-> 0]
  /\ ruleState = [i \in 1..numRules |-> NotVisited]
  /\ all = PendingAll(0)
  /\ settleOrder = <<>>
  /\ logged = <<>>
  /\ error = <<>>
  /\ failedAt = "none"
  /\ startFindings = <<>>
  /\ startEdits = <<>>
  /\ prevJson = <<>>
  /\ runs = 0

\* throw new CommandError(...): the call ends in failure
Throw(e, where) ==
  /\ error' = <<e>>
  /\ failedAt' = where
  /\ pc' = "failed"

\* commandAction is called (line 71); the previous call has ended
Invoke(out) ==
  /\ pc \in {"idle", "done", "failed"}
  /\ runs < MaxRuns
  /\ runs' = runs + 1
  /\ output' = out
  /\ pc' = "getProjectRoot"
  /\ projectLoaded' = FALSE
  /\ visits' = [i \in Rules |-> 0]
  /\ ruleState' = [i \in Rules |-> NotVisited]
  /\ all' = PendingAll(0)
  /\ settleOrder' = <<>>
  /\ logged' = <<>>
  /\ error' = <<>>
  /\ failedAt' = "none"
  /\ startFindings' = allFindings
  /\ startEdits' = allEditSuggestions
  /\ prevJson' = IF pc = "done" /\ output = "json"
                 THEN <<[returned |-> [i \in Rules |-> ruleState[i].value],
                         logged |-> logged]>>
                 ELSE <<>>
  /\ UNCHANGED <<numRules, allFindings, allEditSuggestions, projectRootPath, projectVersion>>

\* lines 76-79: getProjectRoot returns root
GetProjectRoot(root) ==
  /\ pc = "getProjectRoot"
  /\ projectRootPath' = root
  /\ IF root = Null
     THEN Throw(CommandErrorWithCode("Couldn't find project root folder",
                                     ERROR_NO_PROJECT_ROOT_FOLDER), "getProjectRoot")
     ELSE pc' = "getProjectVersion" /\ UNCHANGED <<error, failedAt>>
  /\ UNCHANGED <<numRules, allFindings, allEditSuggestions, projectVersion, output,
                 projectLoaded, visits, ruleState, all, settleOrder, logged,
                 startFindings, startEdits, prevJson, runs>>

\* lines 81-84: getProjectVersion returns version
GetProjectVersion(version) ==
  /\ pc = "getProjectVersion"
  /\ projectVersion' = version
  /\ IF Falsy(version)
     THEN Throw(CommandErrorWithCode("Unable to determine the version", ERROR_NO_VERSION),
                "getProjectVersion")
     ELSE pc' = "checkSupported" /\ UNCHANGED <<error, failedAt>>
  /\ UNCHANGED <<numRules, allFindings, allEditSuggestions, projectRootPath, output,
                 projectLoaded, visits, ruleState, all, settleOrder, logged,
                 startFindings, startEdits, prevJson, runs>>

\* lines 86-88
CheckSupported ==
  /\ pc = "checkSupported"
  /\ IF ~Falsy(projectVersion) /\ indexOf(supportedVersions, projectVersion) < 0
     THEN Throw(CommandErrorWithCode("doesn't support externalizing", ERROR_UNSUPPORTED_VERSION),
                "checkSupported")
     ELSE pc' = "getProject" /\ UNCHANGED <<error, failedAt>>
  /\ UNCHANGED <<numRules, allFindings, allEditSuggestions, projectRootPath, projectVersion,
                 output, projectLoaded, visits, ruleState, all, settleOrder, logged,
                 startFindings, startEdits, prevJson, runs>>

\* line 93
GetProject ==
  /\ pc = "getProject"
  /\ projectLoaded' = TRUE
  /\ pc' = "visit"
  /\ UNCHANGED <<numRules, allFindings, allEditSuggestions, projectRootPath, projectVersion,
                 output, visits, ruleState, all, settleOrder, logged, error, failedAt,
                 startFindings, startEdits, prevJson, runs>>

\* lines 100-102: every rule is visited, Promise.all is awaited
VisitRules ==
  /\ pc = "visit"
  /\ visits' = [i \in Rules |-> visits[i] + 1]
  /\ ruleState' = [i \in Rules |-> Pending]
  /\ all' = PromiseAll(numRules)
  /\ pc' = "await"
  /\ UNCHANGED <<numRules, allFindings, allEditSuggestions, projectRootPath, projectVersion,
                 output, projectLoaded, settleOrder, logged, error, failedAt,
                 startFindings, startEdits, prevJson, runs>>

\* the promise of rule i fulfils with result res
RuleFulfils(i, res) ==
  /\ pc = "await"
  /\ ruleState[i].status = "pending"
  /\ ruleState' = [ruleState EXCEPT ![i] = [status |-> "fulfilled", value |-> res]]
  /\ all' = PromiseAllOnFulfil(all, i, res)
  /\ settleOrder' = Append(settleOrder, i)
  /\ UNCHANGED <<numRules, allFindings, allEditSuggestions, projectRootPath, projectVersion,
                 pc, output, projectLoaded, visits, logged, error, failedAt,
                 startFindings, startEdits, prevJson, runs>>

\* the promise of rule i rejects
RuleRejects(i) ==
  /\ pc = "await"
  /\ ruleState[i].status = "pending"
  /\ ruleState' = [ruleState EXCEPT ![i] = [status |-> "rejected", value |-> NoResult]]
  /\ all' = PromiseAllOnReject(all, i, RuleError)
  /\ settleOrder' = Append(settleOrder, i)
  /\ UNCHANGED <<numRules, allFindings, allEditSuggestions, projectRootPath, projectVersion,
                 pc, output, projectLoaded, visits, logged, error, failedAt,
                 startFindings, startEdits, prevJson, runs>>

\* lines 102-108: the await returns rulesResults
ResumeFulfilled ==
  /\ pc = "await"
  /\ all.status = "fulfilled"
  /\ LET rulesResults == all.values
         entries == [i \in 1..Len(rulesResults) |-> rulesResults[i].entries]
         suggestions == [i \in 1..Len(rulesResults) |-> rulesResults[i].suggestions]
     IN IF reduceThrows(entries)
        THEN /\ Throw(CommandErrorNoCode(ReduceTypeError), "aggregate")
             /\ UNCHANGED <<allFindings, allEditSuggestions, logged>>
        ELSE LET pushed == allFindings \o reduceConcat(entries)
                 edits == allEditSuggestions \o reduceConcat(suggestions)
                 findings == removeDuplicates(pushed)
             IN /\ allFindings' = findings
                /\ allEditSuggestions' = edits
                /\ logged' = Append(logged, writeReport(findings, edits, output, projectRootPath))
                /\ pc' = "done"
                /\ UNCHANGED <<error, failedAt>>
  /\ UNCHANGED <<numRules, projectRootPath, projectVersion, output, projectLoaded, visits,
                 ruleState, all, settleOrder, startFindings, startEdits, prevJson, runs>>

\* variant: a rejection sends the call back to visiting the rules
ResumeRejectedRetry ==
  /\ pc = "await"
  /\ all.status = "rejected"
  /\ pc' = "visit"
  /\ UNCHANGED <<numRules, allFindings, allEditSuggestions, projectRootPath, projectVersion,
                 output, projectLoaded, visits, ruleState, all, settleOrder, logged,
                 error, failedAt, startFindings, startEdits, prevJson, runs>>
\* lines 109-111: the await throws the first rejection
ResumeRejected ==
  /\ pc = "await"
  /\ all.status = "rejected"
  /\ Throw(CommandErrorNoCode(all.reason), "rules")
  /\ UNCHANGED <<numRules, allFindings, allEditSuggestions, projectRootPath, projectVersion,
                 output, projectLoaded, visits, ruleState, all, settleOrder, logged,
                 startFindings, startEdits, prevJson, runs>>

Next ==
  \/ \E out \in Outputs : Invoke(out)
  \/ \E root \in Roots : GetProjectRoot(root)
  \/ \E version \in Versions : GetProjectVersion(version)
  \/ CheckSupported
  \/ GetProject
  \/ VisitRules
  \/ \E i \in Rules, res \in RuleResults : RuleFulfils(i, res)
  \/ \E i \in Rules : RuleRejects(i)
  \/ ResumeFulfilled
  \/ ResumeRejected

Spec == Init /\ [][Next]_vars

----------------------------------------------------------------------------
(* writeReport on its own: the findings passed to it are deduplicated by key *)
(* (line 106), the edits are any list.                                       *)

Entries == {LodashCdn, LodashOther, JqueryCdn, JqueryOther, ReactCdn}
Edits == {AddLodash, AddJquery, RemoveRequire, AddOther}

SeqsUpTo(S, n) == UNION {[1..k -> S] : k \in 0..n}

DistinctKeys(fs) == \A i, j \in 1..Len(fs) : fs[i].key = fs[j].key => i = j

InitReport ==
  /\ numRules = 0
  /\ allFindings \in {fs \in SeqsUpTo(Entries, 3) : DistinctKeys(fs)}
  /\ allEditSuggestions \in SeqsUpTo(Edits, MaxEdits)
  /\ projectRootPath = "/work/proj"
  /\ projectVersion = "1.9.1"
  /\ pc = "writeReport"
  /\ output = Undefined
  /\ projectLoaded = TRUE
  /\ visits = <<>>
  /\ ruleState = <<>>
  /\ all = PromiseAll(0)
  /\ settleOrder = <<>>
  /\ logged = <<>>
  /\ error = <<>>
  /\ failedAt = "none"
  /\ startFindings = <<>>
  /\ startEdits = <<>>
  /\ prevJson = <<>>
  /\ runs = 1

\* lines 114-130 with options.output = out
WriteReport(out) ==
  /\ pc = "writeReport"
  /\ output' = out
  /\ logged' = Append(logged, writeReport(allFindings, allEditSuggestions, out, projectRootPath))
  /\ pc' = "done"
  /\ UNCHANGED <<numRules, allFindings, allEditSuggestions, projectRootPath, projectVersion,
                 projectLoaded, visits, ruleState, all, settleOrder, error, failedAt,
                 startFindings, startEdits, prevJson, runs>>

NextReport == \E out \in Outputs : WriteReport(out)

SpecReport == InitReport /\ [][NextReport]_vars

----------------------------------------------------------------------------
(* Properties *)

\* what the rules returned in the current call, concatenated in registration order
RECURSIVE ReturnedEntries(_)
ReturnedEntries(n) ==
  IF n = 0 THEN <<>> ELSE ReturnedEntries(n - 1) \o ruleState[n].value.entries

RECURSIVE ReturnedSuggestions(_)
ReturnedSuggestions(n) ==
  IF n = 0 THEN <<>> ELSE ReturnedSuggestions(n - 1) \o ruleState[n].value.suggestions

\* a list without the entries whose key occurred earlier in it
RECURSIVE FirstWins(_)
FirstWins(fs) ==
  IF fs = <<>> THEN <<>>
  ELSE LET init == FirstWins(SubSeq(fs, 1, Len(fs) - 1))
           x == fs[Len(fs)]
       IN IF \E i \in 1..Len(init) : init[i].key = x.key THEN init ELSE Append(init, x)

FirstWithKey(fs, k) ==
  fs[CHOOSE i \in 1..Len(fs) : fs[i].key = k /\ \A j \in 1..(i - 1) : fs[j].key # k]

AllFulfilled == \A i \in Rules : ruleState[i].status = "fulfilled"
SomeRejected == \E i \in Rules : ruleState[i].status = "rejected"
NothingReported == logged = <<>>
NothingRun == ~projectLoaded /\ (\A i \in Rules : visits[i] = 0) /\ NothingReported

\* C1: after a successful call, every key that occurs in the entries the rules
\* returned has exactly one entry in allFindings, and it is the first entry with
\* that key in the rules' entries concatenated in registration order.
C1_FirstReturnedEntryWins ==
  pc = "done" =>
    LET returned == ReturnedEntries(numRules)
    IN \A i \in 1..Len(returned) :
         LET k == returned[i].key
         IN /\ Cardinality({j \in 1..Len(allFindings) : allFindings[j].key = k}) = 1
            /\ \A j \in 1..Len(allFindings) :
                 allFindings[j].key = k => allFindings[j] = FirstWithKey(returned, k)

\* C2: once a rule's promise has rejected, the call never succeeds: nothing is
\* passed to logger.log, allFindings and allEditSuggestions stay as they were when
\* the call began, and the call ends with a CommandError wrapping the rejection.
C2_FailFast ==
  SomeRejected =>
    /\ pc \in {"await", "failed"}
    /\ NothingReported
    /\ allFindings = startFindings
    /\ allEditSuggestions = startEdits
    /\ pc = "failed" => error = <<[message |-> RuleError, code |-> {}]>>

C2_Witness ==
  /\ pc = "failed"
  /\ Len(settleOrder) = 2
  /\ ruleState[settleOrder[1]].status = "fulfilled"
  /\ ruleState[settleOrder[1]].value.entries # <<>>
  /\ ruleState[settleOrder[2]].status = "rejected"

\* C3: when all rules fulfil, aggregation consumes the results in registration
\* order whatever the order of completion: the array the await returns holds
\* rule i's result at index i, and the findings and edits after the call are
\* those computed from the results taken in registration order.
C3_RegistrationOrder ==
  /\ (pc = "await" /\ all.status = "fulfilled") =>
       \A i \in Rules : all.values[i] = ruleState[i].value
  /\ pc = "done" =>
       /\ allFindings = FirstWins(startFindings \o ReturnedEntries(numRules))
       /\ allEditSuggestions = startEdits \o ReturnedSuggestions(numRules)

C3_Witness ==
  /\ pc = "done"
  /\ settleOrder = <<2, 1>>
  /\ ruleState[1].value.entries = <<LodashOther, JqueryCdn, ReactCdn, JqueryOther>>
  /\ ruleState[2].value.entries = <<LodashCdn>>
  /\ allFindings = <<LodashOther, JqueryCdn, ReactCdn>>
  /\ allEditSuggestions = <<RemoveRequire, AddOther, AddJquery, AddLodash>>

\* C4: two successive successful calls with output 'json' in which the rules
\* return the same results log the same structured report.
C4_Idempotent ==
  (/\ pc = "done"
   /\ output = "json"
   /\ prevJson # <<>>
   /\ prevJson[1].returned = [i \in Rules |-> ruleState[i].value])
  => logged = prevJson[1].logged

\* C5: with no rules registered and the pre-flight checks passed, the call
\* succeeds and logs a report with an empty externals mapping.
C5_ZeroRulesSucceed ==
  (numRules = 0 /\ projectLoaded /\ pc \in {"done", "failed"}) =>
    /\ pc = "done"
    /\ error = <<>>
    /\ Len(logged) = 1
    /\ allFindings = <<>>
    /\ allEditSuggestions = <<>>

\* C6: the pre-flight checks run in the order root, version present, version
\* supported, and the first that fails ends the call: a null root fails with code
\* 1, else a missing version with code 3, else a version outside the allowlist
\* with code 2; in each case no project is loaded, no rule is visited and
\* nothing is logged.
Supported(v) == \E i \in 1..Len(supportedVersions) : supportedVersions[i] = v

C6_PreflightOrder ==
  /\ (pc \notin {"idle", "getProjectRoot"} /\ projectRootPath = Null) =>
       /\ pc = "failed"
       /\ error = <<[message |-> "Couldn't find project root folder", code |-> {1}]>>
       /\ NothingRun
  /\ (pc \notin {"idle", "getProjectRoot", "getProjectVersion"}
      /\ projectRootPath # Null /\ projectVersion \in {Undefined, ""}) =>
       /\ pc = "failed"
       /\ error = <<[message |-> "Unable to determine the version", code |-> {3}]>>
       /\ NothingRun
  /\ (pc \notin {"idle", "getProjectRoot", "getProjectVersion", "checkSupported"}
      /\ projectRootPath # Null /\ projectVersion \notin {Undefined, ""}
      /\ ~Supported(projectVersion)) =>
       /\ pc = "failed"
       /\ error = <<[message |-> "doesn't support externalizing", code |-> {2}]>>
       /\ NothingRun
  /\ (pc = "failed" /\ failedAt \in {"getProjectRoot", "getProjectVersion", "checkSupported"})
       => NothingRun

C6_Witness ==
  /\ pc = "failed"
  /\ failedAt = "checkSupported"
  /\ projectVersion = "9.9.9"
  /\ runs = 2
  /\ allFindings # <<>>

\* C7 as stated: a call that ended in any of the four kinds of failure (no
\* root, no version, unsupported version, a rule's rejection) carries a code of
\* its own.
C7_EveryKindHasCode ==
  (pc = "failed"
   /\ failedAt \in {"getProjectRoot", "getProjectVersion", "checkSupported", "rules"}) =>
    /\ error[1].code # {}
    /\ Cardinality({ERROR_NO_PROJECT_ROOT_FOLDER, ERROR_NO_VERSION,
                    ERROR_UNSUPPORTED_VERSION}) = 3

\* C7: the three pre-flight failures carry their own, pairwise distinct codes
\* (NoProjectRoot 1, NoVersion 3, UnsupportedVersion 2); a failure raised after
\* the rules were dispatched (a rule's rejection included) carries no code.
C7_PreflightCodesDistinct ==
  pc = "failed" =>
    /\ Len(error) = 1
    /\ failedAt = "getProjectRoot" <=> error[1].code = {1}
    /\ failedAt = "getProjectVersion" <=> error[1].code = {3}
    /\ failedAt = "checkSupported" <=> error[1].code = {2}
    /\ failedAt \in {"rules", "aggregate"} <=> error[1].code = {}

C7_Witness ==
  /\ pc = "failed"
  /\ failedAt = "rules"
  /\ error[1].code = {}

Count(seq, e) == Cardinality({i \in 1..Len(seq) : seq[i] = e})

\* C8: getGroupedFileEdits(edits, a) returns non-empty groups; every edit with
\* action a is in exactly one group, as often as it is in the input, and no
\* other edit is in any; a group's edits share one path, no two groups share a
\* path, groups come in the order their paths first appear in the input, and a
\* group keeps its edits in input order.
C8_Grouping ==
  \A a \in {"add", "remove"} :
    LET edits == allEditSuggestions
        groups == getGroupedFileEdits(edits, a)
        G == 1..Len(groups)
        FirstAt(p) == CHOOSE i \in 1..Len(edits) :
                        /\ edits[i].action = a /\ edits[i].path = p
                        /\ \A j \in 1..(i - 1) : ~(edits[j].action = a /\ edits[j].path = p)
    IN /\ \A g \in G :
            /\ groups[g] # <<>>
            /\ \A i \in 1..Len(groups[g]) :
                 groups[g][i].action = a /\ groups[g][i].path = groups[g][1].path
            /\ groups[g] = SelectSeq(edits, LAMBDA x : x.action = a /\ x.path = groups[g][1].path)
       /\ \A g, h \in G : groups[g][1].path = groups[h][1].path => g = h
       /\ \A g, h \in G : g < h => FirstAt(groups[g][1].path) < FirstAt(groups[h][1].path)
       /\ \A i \in 1..Len(edits) :
            LET holders == {g \in G : Count(groups[g], edits[i]) > 0}
            IN IF edits[i].action = a
               THEN /\ Cardinality(holders) = 1
                    /\ \A g \in holders : Count(groups[g], edits[i]) = Count(edits, edits[i])
               ELSE holders = {}

C8_Witness ==
  /\ pc = "done"
  /\ output = "md"
  /\ allEditSuggestions = <<AddLodash, RemoveRequire, AddOther, AddJquery>>
  /\ getGroupedFileEdits(allEditSuggestions, "add") = <<<<AddLodash, AddJquery>>, <<AddOther>>>>
  /\ getGroupedFileEdits(allEditSuggestions, "remove") = <<<<RemoveRequire>>>>

\* C9: in the externals mapping of the structured report, the keys are the keys
\* of the findings, and the value for a finding's key is the object {path,
\* globalName, globalDependencies} when the finding has a (non-empty) globalName
\* and the bare path string when it has none.
C9_ExternalsMapping ==
  (pc = "done" /\ output = "json") =>
    LET m == logged[1].object.externalConfiguration.externals
        keys == {allFindings[i].key : i \in 1..Len(allFindings)}
    IN /\ {m[i].key : i \in 1..Len(m)} = keys
       /\ Len(m) = Cardinality(keys)
       /\ \A i \in 1..Len(allFindings) :
            LET f == allFindings[i]
                v == (CHOOSE e \in {m[j] : j \in 1..Len(m)} : e.key = f.key).value
            IN IF f.globalName \notin {Undefined, ""}
               THEN v = [type |-> "External", path |-> f.path, globalName |-> f.globalName,
                         globalDependencies |-> f.globalDependencies]
               ELSE v = [type |-> "string", path |-> f.path, globalName |-> Undefined,
                         globalDependencies |-> UndefinedDeps]

C9_Witness ==
  /\ pc = "done"
  /\ output = "json"
  /\ allFindings = <<JqueryCdn, ReactCdn, LodashCdn>>
  /\ Len(logged) = 1

\* the JSON object that follows the first "externals" property name in a string
RECURSIVE ObjectEnd(_, _, _)
ObjectEnd(s, i, depth) ==
  LET d == depth + (IF s[i] = "{" THEN 1 ELSE IF s[i] = "}" THEN -1 ELSE 0)
  IN IF d = 0 THEN i ELSE ObjectEnd(s, i + 1, d)

EmbeddedExternals(s) ==
  LET k == CHOOSE i \in 1..Len(s) : s[i] = "externals" /\ \A j \in 1..(i - 1) : s[j] # "externals"
  IN SubSeq(s, k + 2, ObjectEnd(s, k + 2, 0))

\* C10: for the same findings, the externals mapping embedded in the md
\* document and in the plain-text report is, as JSON, the externals mapping of
\* the structured report.
C10_FormatConsistency ==
  pc = "done" =>
    LET json == writeReport(allFindings, allEditSuggestions, "json", projectRootPath)
        md == writeReport(allFindings, allEditSuggestions, "md", projectRootPath)
        text == writeReport(allFindings, allEditSuggestions, "text", projectRootPath)
        externals == stringifyExternals(json.object.externalConfiguration.externals)
    IN /\ EmbeddedExternals(md.string) = externals
       /\ EmbeddedExternals(text.string) = externals
       /\ logged[1].type = "string" => EmbeddedExternals(logged[1].string) = externals

C10_Witness ==
  /\ pc = "done"
  /\ output = "text"
  /\ allFindings = <<LodashOther, JqueryOther, ReactCdn>>
  /\ allEditSuggestions = <<AddOther, RemoveRequire>>
  /\ EmbeddedExternals(logged[1].string) =
       <<"{", "lodash", ":", "{", "path", ":", "https://other/lodash.js", ",",
         "globalName", ":", "_", ",", "globalDependencies", ":", "[", "jquery", "]", "}", ",",
         "jquery", ":", "https://other/jquery.js", ",",
         "react", ":", "https://cdn/react.js", "}">>

\* C11: writeReport logs the structured object for output 'json', the md
\* document for output 'md', and the plain-text report for every other value of
\* the option ('text', none, or an unrecognized one).
C11_FormatSelection ==
  pc = "done" =>
    LET r == logged[1]
    IN /\ Len(logged) = 1
       /\ output = "json" =>
            /\ r.type = "object"
            /\ r.object = [externalConfiguration |-> serializeJsonReport(allFindings),
                           edits |-> allEditSuggestions]
       /\ output = "md" =>
            /\ r.type = "string"
            /\ r.string[1] = "# Externalizing dependencies of project "
            /\ r.string = serializeMdReport(allFindings, allEditSuggestions, projectRootPath)
       /\ output \notin {"json", "md"} =>
            /\ r.type = "string"
            /\ r.string[1] = "In the config/config.json file update the externals property to:"
            /\ r.string = serializeTextReport(allFindings, allEditSuggestions)

C11_Witness ==
  /\ pc = "done"
  /\ output = "csv"
  /\ allFindings = <<LodashCdn>>
  /\ allEditSuggestions = <<AddLodash>>
  /\ logged[1].type = "string"
  /\ logged[1].string[1] = "In the config/config.json file update the externals property to:"

\* C12: the reported edits are the rules' suggestions of the call, concatenated
\* in registration order and not deduplicated: as many edits as the rules
\* returned suggestions, an edit returned twice being reported twice.
C12_EditsAreConcatenation ==
  pc = "done" =>
    /\ allEditSuggestions = ReturnedSuggestions(numRules)
    /\ Len(allEditSuggestions) = Len(ReturnedSuggestions(numRules))
    /\ output = "json" => logged[1].object.edits = ReturnedSuggestions(numRules)

\* C13: findings and edits are not kept from one call to the next: what a
\* successful call reports holds only entries and edits the rules returned in
\* that call.
C13_NothingCarriedOver ==
  pc = "done" =>
    LET entries == ReturnedEntries(numRules)
        suggestions == ReturnedSuggestions(numRules)
    IN /\ \A i \in 1..Len(allFindings) :
            \E j \in 1..Len(entries) : entries[j] = allFindings[i]
       /\ \A i \in 1..Len(allEditSuggestions) :
            Count(allEditSuggestions, allEditSuggestions[i])
              <= Count(suggestions, allEditSuggestions[i])

\* position of a statement in commandAction
Rank(p) ==
  CASE p = "idle" -> 0
    [] p = "getProjectRoot" -> 1
    [] p = "getProjectVersion" -> 2
    [] p = "checkSupported" -> 3
    [] p = "getProject" -> 4
    [] p = "visit" -> 5
    [] p = "await" -> 6
    [] p \in {"done", "failed"} -> 7

\* C14: a call is one pass through its stages: no rule is visited more than
\* once, a successful call has logged exactly one report and no other call has
\* logged any, every step of a call moves to a later stage (or waits at the
\* await), and a call that has failed or succeeded takes no further step.
C14_LinearRun ==
  /\ [](/\ \A i \in Rules : visits[i] <= 1
        /\ pc = "done" => (Len(logged) = 1 /\ error = <<>>)
        /\ pc # "done" => logged = <<>>
        /\ pc = "failed" => Len(error) = 1
        /\ (pc = "failed" /\ failedAt \in {"getProjectRoot", "getProjectVersion",
                                           "checkSupported"})
             => (~projectLoaded /\ \A i \in Rules : visits[i] = 0)
        /\ (pc = "failed" /\ failedAt \in {"rules", "aggregate"})
             => (allFindings = startFindings /\ allEditSuggestions = startEdits))
  /\ [][IF runs' = runs
        THEN /\ pc \notin {"done", "failed"}
             /\ Rank(pc') >= Rank(pc)
             /\ Rank(pc') = Rank(pc) => pc = "await"
        ELSE /\ pc \in {"idle", "done", "failed"}
             /\ pc' = "getProjectRoot"]_vars

C14_Witness ==
  /\ pc = "done"
  /\ runs = 2
  /\ numRules = 2
  /\ visits = <<1, 1>>
  /\ Len(logged) = 1
  /\ startFindings # <<>>

\* C15: the accumulated findings and edit suggestions are as they were at the
\* start of the call while any rule's promise is pending, and the only step that
\* changes them is the continuation of the await in a call where every rule has
\* fulfilled.
C15_MergedAfterAllSettled ==
  /\ []((\E i \in Rules : ruleState[i].status = "pending")
          => (allFindings = startFindings /\ allEditSuggestions = startEdits))
  /\ [][(allFindings' # allFindings \/ allEditSuggestions' # allEditSuggestions)
          => /\ pc = "await" /\ pc' = "done"
             /\ numRules > 0
             /\ \A i \in Rules : ruleState[i].status = "fulfilled"]_vars

C15_Witness ==
  /\ pc = "done"
  /\ numRules = 2
  /\ settleOrder = <<2, 1>>
  /\ AllFulfilled
  /\ allFindings # startFindings
  /\ allEditSuggestions # startEdits

====
